---------------------------- MODULE Spec2Model ----------------------------
(* A model of the GloVe preprocessing tools of this repository:             *)
(*   cooccur (src/src/cooccur.c lines 1-626), the co-occurrence accumulator  *)
(*   shuffle (src/src/cooccur.c lines 629-924), the chunked shuffler         *)
(*   vocab_count (src/src/vocab_count.c), the vocabulary builder             *)
(* Bytes are their character codes, C arrays are functions on 0..n-1 or      *)
(* sequences, and a weight 1.0/d is the integer Unit \div d.                 *)
EXTENDS Integers, Sequences, FiniteSets, TLC

\* ---------------------------------------------------------------- bounds
\* Most items (words and line breaks) of a corpus of the enumerated family of
\* cooccur inputs.
MaxItems == 4
\* Most tokens of a corpus of the enumerated family of vocab_count inputs.
MaxTokens == 4
\* Most records of an input of the enumerated family of shuffle inputs.
MaxRecords == 4
\* Most bytes by which a token of the tokenization streams exceeds MAX_STRING_LENGTH.
MaxExcess == 2

\* ------------------------------------------------------------- constants
MAX_STRING_LENGTH == 1000
CR == 13
NL == 10
SP == 32
TAB == 9
EOFc == -1
\* The weight 1.0; every weight 1.0/d of the model is a multiple of 1/Unit.
Unit == 60
\* The range of int, the type of word1 and word2.
INT_MAX == 2147483647
INT_MIN == -INT_MAX - 1

\* a - b on C ints, with 32-bit two's complement wrap-around.
IntSub(a, b) ==
  IF b > 0 /\ a < INT_MIN + b THEN ((a - INT_MIN) + (INT_MAX - b)) + 1
  ELSE IF b < 0 /\ a > INT_MAX + b THEN ((a - INT_MAX) + (INT_MIN - b)) - 1
  ELSE a - b

\* C's integer division, which truncates toward zero.
CDiv(a, b) == IF a >= 0 THEN a \div b ELSE -((-a) \div b)

VARIABLES
  \* ---- cooccur
  pc,               \* where cooccur is: "stream", "flush", "merge", "loop", "done", "ub",
                    \* "fail" (merge_files returned 1), "crash" (killed by a signal)
  fid,              \* cooccur's standard input: [data, pos, eof]
  vocab_size, window_size, symmetric, max_product, overflow_length,
  lookup, bigram_table, history, cr, ind, j, fidcounter,
  disk,             \* the run files on disk: file index -> its records
  pq, size, old, rpos, feofs,   \* merge_files: the heap, its size, the buffered record, fid[i]
  out,              \* the records written to standard output
  run, out1,        \* the run number and the output of the first run (two-run comparison)
  \* ---- vocab_count
  vpc,              \* where get_counts is: "count", "migrate", "sort", "print", "done", "error"
  stdin,            \* vocab_count's standard input: [data, pos]
  char_signed,      \* whether plain char is signed in this build
  vocab_hash,       \* bucket -> index of the first HASHREC of its chain (absent: NULL)
  heap,             \* the HASHRECs malloc'ed so far: index -> [word, count, next]
  vocab,            \* the vocab array: sequence of [word, count]
  max_vocab, min_count,
  vout,             \* the lines written to standard output: sequence of [word, count]
  \* ---- shuffle
  spc,              \* where shuffle is: "chunks", "last", "merge", "done", "fail" (returned 1)
  fin,              \* shuffle's standard input: [data, pos, eof]
  array_size, array, s_i,
  s_fidcounter,
  temp,             \* the temporary files: file index -> its records
  s_fid,            \* shuffle_merge's open files: file index -> [pos, eof]
  sout,             \* the records written to standard output
  \* ---- tokenization of one stream by both readers
  tpc,              \* "scan" (vocab_count reads), "word" (cooccur reads), "done"
  tstream,          \* the stream as vocab_count's fscanf reads it: [data, pos]
  gw,               \* the get_word call in progress: [i, buf, f, ret]
  vtoks, ctoks,     \* the tokens vocab_count inserts, the tokens cooccur looks up
  \* ---- the file system
  fopen_fails       \* the fopen call on a run file that returns NULL: [mode, i]

varsC == <<pc, fid, vocab_size, window_size, symmetric, max_product, overflow_length,
           lookup, bigram_table, history, cr, ind, j, fidcounter, disk,
           pq, size, old, rpos, feofs, out, run, out1>>
varsV == <<vpc, stdin, char_signed, vocab_hash, heap, vocab, max_vocab, min_count, vout>>
varsS == <<spc, fin, array_size, array, s_i, s_fidcounter, temp, s_fid, sout>>
varsT == <<tpc, tstream, gw, vtoks, ctoks>>
varsE == <<fopen_fails>>

\* Every fopen succeeds.
NoFail == [mode |-> "none", i |-> 0]
\* fopen(filename, mode) on the run file of index k returns NULL.
fopen_null(mode, k) == fopen_fails = [mode |-> mode, i |-> k]
\* The files after fopen(filename, "w") on run file k: it is created empty,
\* or left as it is when the call fails.
fopen_w(files, k) == IF fopen_null("w", k) THEN files ELSE (k :> <<>>) @@ files

\* ------------------------------------------------------ stdio on a stream
\* fgetc: the next byte, or EOF with the end-of-file indicator set.
fgetc(f) ==
  IF f.pos > Len(f.data)
  THEN [ch |-> EOFc, f |-> [f EXCEPT !.eof = TRUE]]
  ELSE [ch |-> f.data[f.pos], f |-> [f EXCEPT !.pos = @ + 1]]

\* ungetc of the byte just read.
ungetc(f) == [f EXCEPT !.pos = @ - 1, !.eof = FALSE]

\* One pass through the body of get_word's while loop.  s is the loop state
\* [i, buf, f, ret]; ret = -1 while the loop runs, else the return value.
get_word_iter(s) ==
  LET r == fgetc(s.f)
      ch == r.ch
      g == r.f
  IN IF ch = CR THEN [s EXCEPT !.f = g]
     ELSE IF ch \in {SP, TAB, NL}
          THEN IF s.i > 0
               THEN [s EXCEPT !.f = IF ch = NL THEN ungetc(g) ELSE g, !.ret = 0]
               ELSE IF ch = NL THEN [s EXCEPT !.f = g, !.ret = 1]
                    ELSE [s EXCEPT !.f = g]
          ELSE LET b == IF s.i + 1 <= Len(s.buf) THEN [s.buf EXCEPT ![s.i + 1] = ch]
                        ELSE Append(s.buf, ch)
                   i1 == s.i + 1
               IN [s EXCEPT !.f = g, !.buf = b,
                            !.i = IF i1 >= MAX_STRING_LENGTH - 1 THEN i1 - 1 ELSE i1]

\* The terminated string get_word leaves in word: word[i] = 0.
get_word_str(s) == SubSeq(s.buf, 1, s.i)

RECURSIVE get_word_loop(_)
get_word_loop(s) ==
  IF s.ret # -1 THEN s
  ELSE IF s.f.eof THEN [s EXCEPT !.ret = 0]
  ELSE get_word_loop(get_word_iter(s))

get_word_start(f) == [i |-> 0, buf |-> <<>>, f |-> f, ret |-> -1]

\* get_word: [flag, word, f].
get_word(f) ==
  LET s == get_word_loop(get_word_start(f))
  IN [flag |-> s.ret, word |-> get_word_str(s), f |-> s.f]

\* ----------------------------------------------------------- vocabulary
\* The vocabulary file of n words: line r holds the one-letter word 'a' + r - 1.
VocabFile(n) == [r \in 1..n |-> <<96 + r>>]

\* hashsearch on the table filled from the vocabulary file: the rank (id) of
\* the word, or 0 for NULL.
hashsearch(w) ==
  IF \E r \in 1..vocab_size : VocabFile(vocab_size)[r] = w
  THEN CHOOSE r \in 1..vocab_size : VocabFile(vocab_size)[r] = w
  ELSE 0

\* The lookup table: lookup[0] = 1, lookup[a] = lookup[a-1] + min(V, M / a).
RECURSIVE BuildLookup(_, _, _)
BuildLookup(a, M, V) ==
  IF a = 0 THEN (0 :> 1)
  ELSE LET l == BuildLookup(a - 1, M, V)
       IN l @@ (a :> (IF M \div a < V THEN (M \div a) + l[a - 1] ELSE l[a - 1] + V))

\* ------------------------------------------------- records and their order
\* compare_crec, the order qsort sorts the overflow buffer by.
compare_crec(a, b) ==
  LET c == IntSub(a.word1, b.word1)
  IN IF c # 0 THEN c ELSE IntSub(a.word2, b.word2)

\* compare_crecid, the order of the merge's priority queue.
compare_crecid(a, b) ==
  LET c == IntSub(a.word1, b.word1)
  IN IF c # 0 THEN c ELSE IntSub(a.word2, b.word2)

\* qsort(cr, ind, sizeof(CREC), compare_crec).  Records that compare equal are
\* kept in buffer order; write_chunk adds them up, and a sum of exact weights
\* does not depend on the order qsort leaves them in.
RECURSIVE qsort_insert(_, _)
qsort_insert(s, r) ==
  IF s = <<>> THEN <<r>>
  ELSE IF compare_crec(s[Len(s)], r) > 0
       THEN Append(qsort_insert(SubSeq(s, 1, Len(s) - 1), r), s[Len(s)])
       ELSE Append(s, r)

RECURSIVE qsort(_)
qsort(s) ==
  IF s = <<>> THEN <<>>
  ELSE qsort_insert(qsort(SubSeq(s, 1, Len(s) - 1)), s[Len(s)])

\* write_chunk of cooccur: the records fwrite appends to the run file, equal
\* neighbours accumulated.
RECURSIVE write_chunk_loop(_, _, _, _)
write_chunk_loop(c, a, o, written) ==
  IF a > Len(c) THEN Append(written, o)
  ELSE IF c[a].word1 = o.word1 /\ c[a].word2 = o.word2
       THEN write_chunk_loop(c, a + 1, [o EXCEPT !.val = @ + c[a].val], written)
       ELSE write_chunk_loop(c, a + 1, c[a], Append(written, o))

\* The records written one by one, nothing accumulated.
write_chunk_raw(c, length) == SubSeq(c, 1, length)

write_chunk(c, length) ==
  IF length = 0 THEN <<>>
  ELSE write_chunk_loop(SubSeq(c, 1, length), 2, c[1], <<>>)

\* ------------------------------------------- get_cooccurrence: the stream
\* The weight 1.0/((real)(j-k)).
Weight(d) == Unit \div d

\* bigram_table[idx] += r; an index outside the allocation is undefined behaviour.
bigram_add(st, idx, r) ==
  IF st.ub THEN st
  ELSE IF idx \in DOMAIN st.bt
  THEN [st EXCEPT !.bt = [@ EXCEPT ![idx] = @ + r]]
  ELSE [st EXCEPT !.ub = TRUE]

\* cr[ind] = (w1, w2, r); ind++.  cr holds overflow_length + 1 records: a
\* write at an index above overflow_length is undefined behaviour.
cr_add(st, w1, w2, r) ==
  IF st.ub THEN st
  ELSE IF st.ind <= overflow_length
  THEN [st EXCEPT !.cr = Append(@, [word1 |-> w1, word2 |-> w2, val |-> r]),
                  !.ind = @ + 1]
  ELSE [st EXCEPT !.ub = TRUE, !.ind = @ + 1]

\* An index that runs into the next row.
dense_index_next(w1, w2) == lookup[w1 - 1] + w2 - 1

\* The cell of the pair (w1, w2) in bigram_table: lookup[w1-1] + w2 - 2.
dense_index(w1, w2) == lookup[w1 - 1] + w2 - 2

\* The body of the loop over the context words of the target word w2.
context_step(st, k, w2) ==
  LET w1 == history[k % window_size]
      r == Weight(j - k)
  IN IF w1 < max_product \div w2
     THEN LET d == bigram_add(st, dense_index(w1, w2), r)
          IN IF symmetric > 0 THEN bigram_add(d, dense_index(w2, w1), r) ELSE d
     ELSE LET o == cr_add(st, w1, w2, r)
          IN IF symmetric > 0 THEN cr_add(o, w2, w1, r) ELSE o

\* for (k = j - 1; k >= ((j > window_size) ? j - window_size : 0); k--)
RECURSIVE context_loop(_, _, _)
context_loop(st, k, w2) ==
  IF k < (IF j > window_size THEN j - window_size ELSE 0) \/ st.ub THEN st
  ELSE context_loop(context_step(st, k, w2), k - 1, w2)

\* The overflow buffer is (almost) full.
buffer_full(n) == n >= overflow_length - window_size

\* foverflow is NULL: the fopen of the current overflow file failed, and the
\* code goes on without a test.
foverflow_null == fidcounter \notin DOMAIN disk

\* What a call of fwrite or fclose on a NULL stream may do: end the program
\* with a signal, or return without effect.
NullStream == {"crash", "return"}

\* One iteration of get_cooccurrence's while (1) loop: the flush of a full
\* overflow buffer, get_word, the lookup and the contributions of the token.
GetCooccurrenceToken ==
  /\ UNCHANGED <<varsV, varsS, varsT, varsE>>
  /\ pc = "stream"
  /\ LET full == buffer_full(ind)
     IN \E o \in (IF full /\ foverflow_null THEN NullStream ELSE {"return"}) :
        IF o = "crash"
        THEN /\ pc' = "crash"
             /\ UNCHANGED <<fid, fidcounter, disk, cr, ind, j, history, bigram_table>>
        ELSE
        LET cr0 == IF full THEN <<>> ELSE cr
            ind0 == IF full THEN 0 ELSE ind
            fc == IF full THEN fidcounter + 1 ELSE fidcounter
            dk == IF full
                  THEN fopen_w(IF foverflow_null THEN disk
                               ELSE [disk EXCEPT ![fidcounter] =
                                                   @ \o write_chunk(qsort(cr), ind)],
                               fidcounter + 1)
                  ELSE disk
            g == get_word(fid)
            w2 == hashsearch(g.word)
            st == context_loop([bt |-> bigram_table, cr |-> cr0, ind |-> ind0, ub |-> FALSE],
                               j - 1, w2)
        IN /\ fid' = g.f
           /\ fidcounter' = fc
           /\ disk' = dk
           /\ IF g.f.eof
              THEN /\ pc' = "flush"
                   /\ cr' = cr0 /\ ind' = ind0
                   /\ UNCHANGED <<j, history, bigram_table>>
              ELSE IF g.flag = 1
              THEN /\ j' = 0
                   /\ cr' = cr0 /\ ind' = ind0
                   /\ UNCHANGED <<pc, history, bigram_table>>
              ELSE IF w2 = 0
              THEN /\ cr' = cr0 /\ ind' = ind0
                   /\ UNCHANGED <<pc, j, history, bigram_table>>
              ELSE /\ pc' = IF st.ub THEN "ub" ELSE "stream"
                   /\ bigram_table' = st.bt
                   /\ cr' = st.cr /\ ind' = st.ind
                   /\ history' = [history EXCEPT ![j % window_size] = w2]
                   /\ j' = j + 1
  /\ UNCHANGED <<vocab_size, window_size, symmetric, max_product, overflow_length,
                 lookup, pq, size, old, rpos, feofs, out, run, out1>>

\* The dump of bigram_table to run 0000: the nonzero cells, x outer, y inner.
RECURSIVE dense_row(_, _, _)
dense_row(x, y, acc) ==
  IF y > lookup[x] - lookup[x - 1] THEN acc
  ELSE LET r == bigram_table[lookup[x - 1] - 2 + y]
       IN dense_row(x, y + 1,
                    IF r # 0 THEN Append(acc, [word1 |-> x, word2 |-> y, val |-> r]) ELSE acc)

RECURSIVE dense_dump(_, _)
dense_dump(x, acc) ==
  IF x > vocab_size THEN acc ELSE dense_dump(x + 1, dense_row(x, 1, acc))

\* The end of get_cooccurrence: the last overflow chunk, the dense run 0000 and
\* the call of merge_files(fidcounter + 1).  Neither fopen is tested: with
\* foverflow NULL write_chunk (of one record or more) and fclose(foverflow),
\* with the dense fid NULL fwrite and fclose(fid), are calls on a NULL stream.
\* A crash loses what the open overflow file has buffered.
GetCooccurrenceFlush ==
  /\ UNCHANGED <<varsV, varsS, varsT, varsE>>
  /\ pc = "flush"
  /\ LET dense == dense_dump(1, <<>>)
         chunk == write_chunk(qsort(cr), ind)
         written == IF foverflow_null THEN disk
                    ELSE [disk EXCEPT ![fidcounter] = @ \o chunk]
         null == foverflow_null \/ fopen_null("w", 0)
     IN \E o \in (IF null THEN NullStream ELSE {"return"}) :
          IF o = "crash"
          THEN /\ pc' = "crash"
               /\ \/ /\ (foverflow_null /\ ind > 0) \/ fopen_null("w", 0)
                     /\ disk' = disk
                  \/ /\ foverflow_null
                     /\ disk' = (0 :> dense) @@ disk
          ELSE /\ pc' = "merge"
               /\ disk' = IF fopen_null("w", 0) THEN written ELSE (0 :> dense) @@ written
  /\ UNCHANGED <<fid, vocab_size, window_size, symmetric, max_product, overflow_length,
                 lookup, bigram_table, history, cr, ind, j, fidcounter,
                 pq, size, old, rpos, feofs, out, run, out1>>

\* ------------------------------------------------------------ merge_files
swap_entry(q, a, b) == [q EXCEPT ![a] = q[b], ![b] = q[a]]

\* insert: the new entry goes to pq[size - 1] and is sifted up.
RECURSIVE insert_loop(_, _)
insert_loop(q, c) ==
  LET p == CDiv(c - 1, 2)
  IN IF p >= 0 /\ compare_crecid(q[p], q[c]) > 0
     THEN insert_loop(swap_entry(q, p, c), p)
     ELSE q

insert(q, new, sz) == insert_loop([q EXCEPT ![sz - 1] = new], sz - 1)

\* delete: pq[size - 1] replaces the top and is sifted down.
RECURSIVE delete_loop(_, _, _)
delete_loop(q, p, sz) ==
  LET c == 2 * p + 1
  IN IF ~(c < sz - 1) THEN q
     ELSE IF c = sz - 2
          THEN IF compare_crecid(q[p], q[c]) > 0 THEN swap_entry(q, p, c) ELSE q
          ELSE IF compare_crecid(q[c], q[c + 1]) < 0
               THEN IF compare_crecid(q[p], q[c]) > 0
                    THEN delete_loop(swap_entry(q, p, c), c, sz)
                    ELSE q
               ELSE IF compare_crecid(q[p], q[c + 1]) > 0
                    THEN delete_loop(swap_entry(q, p, c + 1), c + 1, sz)
                    ELSE q

delete(q, sz) == delete_loop([q EXCEPT ![0] = q[sz - 1]], 0, sz)

\* merge_write: [old, written, count].
merge_write(new, o) ==
  IF new.word1 = o.word1 /\ new.word2 = o.word2
  THEN [old |-> [o EXCEPT !.val = @ + new.val], written |-> <<>>, count |-> 0]
  ELSE [old |-> new, written |-> <<[word1 |-> o.word1, word2 |-> o.word2, val |-> o.val]>>,
        count |-> 1]

\* fread(&new, sizeof(CREC), 1, fid[i]) on state m = [pq, new, rpos, feofs]:
\* at the end of the file nothing is stored and the end-of-file indicator is set.
fread_run(m, i) ==
  IF m.rpos[i] < Len(disk[i])
  THEN LET r == disk[i][m.rpos[i] + 1]
       IN [m EXCEPT !.new = [word1 |-> r.word1, word2 |-> r.word2, val |-> r.val,
                             id |-> m.new.id],
                    !.rpos = [@ EXCEPT ![i] = @ + 1]]
  ELSE [m EXCEPT !.feofs = [@ EXCEPT ![i] = TRUE]]

\* Open all files and add the first entry of each to the priority queue.
RECURSIVE merge_prime(_, _, _)
merge_prime(m, i, num) ==
  IF i >= num THEN m
  ELSE LET r == fread_run(m, i)
           n == [r.new EXCEPT !.id = i]
       IN merge_prime([r EXCEPT !.new = n, !.pq = insert(r.pq, n, i + 1)], i + 1, num)

\* Pop the top of the queue and refill it from the file the top came from.
merge_pop(m, sz) ==
  LET i == m.pq[0].id
      d == [m EXCEPT !.pq = delete(m.pq, sz)]
      r == fread_run(d, i)
  IN IF r.feofs[i]
     THEN [m |-> r, size |-> sz - 1]
     ELSE LET n == [r.new EXCEPT !.id = i]
          IN [m |-> [r EXCEPT !.new = n, !.pq = insert(r.pq, n, sz)], size |-> sz]

\* What the uninitialised local new of merge_files may hold when the first
\* fread stores nothing.
Garbage ==
  { [word1 |-> 0, word2 |-> 0, val |-> 0, id |-> 0],
    [word1 |-> 1, word2 |-> 1, val |-> Unit, id |-> 0],
    [word1 |-> INT_MIN, word2 |-> 0, val |-> 0, id |-> 0] }

\* The run files merge_files cannot open for reading.
merge_unopened(num) == {i \in 0..num - 1 : i \notin DOMAIN disk \/ fopen_null("rb", i)}

\* merge_files up to its while loop: the priming of the queue and the first
\* pop; a file that cannot be opened ends it with the message and return 1.
MergeFilesOpen ==
  /\ UNCHANGED <<varsV, varsS, varsT, varsE>>
  /\ pc = "merge"
  /\ IF merge_unopened(fidcounter + 1) # {}
     THEN /\ pc' = "fail"
          /\ UNCHANGED <<old, pq, rpos, feofs, size>>
     ELSE /\ \E g \in Garbage :
               LET num == fidcounter + 1
                   m0 == [pq |-> [i \in 0..num - 1 |-> g], new |-> g,
                          rpos |-> [i \in 0..num - 1 |-> 0],
                          feofs |-> [i \in 0..num - 1 |-> FALSE]]
                   m1 == merge_prime(m0, 0, num)
                   p == merge_pop(m1, num)
               IN /\ old' = m1.pq[0]
                  /\ pq' = p.m.pq
                  /\ rpos' = p.m.rpos
                  /\ feofs' = p.m.feofs
                  /\ size' = p.size
          /\ pc' = "loop"
  /\ UNCHANGED <<fid, vocab_size, window_size, symmetric, max_product, overflow_length,
                 lookup, bigram_table, history, cr, ind, j, fidcounter, disk,
                 out, run, out1>>

\* One iteration of merge_files' while (size > 0) loop.
MergeFilesLoop ==
  /\ UNCHANGED <<varsV, varsS, varsT, varsE>>
  /\ pc = "loop"
  /\ size > 0
  /\ LET w == merge_write(pq[0], old)
         p == merge_pop([pq |-> pq, new |-> pq[0], rpos |-> rpos, feofs |-> feofs], size)
     IN /\ old' = w.old
        /\ out' = out \o w.written
        /\ pq' = p.m.pq
        /\ rpos' = p.m.rpos
        /\ feofs' = p.m.feofs
        /\ size' = p.size
  /\ UNCHANGED <<pc, fid, vocab_size, window_size, symmetric, max_product, overflow_length,
                 lookup, bigram_table, history, cr, ind, j, fidcounter, disk, run, out1>>

\* The removal loop skipped.
remove_runs_none(files, num) == files

\* for (i=0;i<num;i++) remove(filename): the run files 0..num-1 are deleted.
remove_runs(files, num) == [i \in (DOMAIN files) \ (0..num - 1) |-> files[i]]

\* The end of merge_files: the buffered record is written and the run files
\* are removed.
MergeFilesEnd ==
  /\ UNCHANGED <<varsV, varsS, varsT, varsE>>
  /\ pc = "loop"
  /\ size = 0
  /\ out' = Append(out, [word1 |-> old.word1, word2 |-> old.word2, val |-> old.val])
  /\ disk' = remove_runs(disk, fidcounter + 1)
  /\ pc' = "done"
  /\ UNCHANGED <<fid, vocab_size, window_size, symmetric, max_product, overflow_length,
                 lookup, bigram_table, history, cr, ind, j, fidcounter,
                 pq, size, old, rpos, feofs, run, out1>>

\* ============================================================ vocab_count
TSIZE == 1048576
SEED == 1159241
NULL == 0
\* The bytes isspace accepts in the C locale.
isspace(c) == c \in {9, 10, 11, 12, 13, 32}
\* The token vocab_count refuses: "<unk>".
Unk == <<60, 117, 110, 107, 62>>

\* The value of a plain char holding byte b, promoted to int.
CharVal(b) == IF char_signed /\ b >= 128 THEN b - 256 ELSE b

\* s[k] of the NUL-terminated string s, counting from 1.
CharAt(s, k) == IF k <= Len(s) THEN CharVal(s[k]) ELSE 0

\* scmp: walks while *s1 is not NUL and equals *s2, returns *s1 - *s2.
scmp(s1, s2) ==
  LET k == CHOOSE n \in 1..Len(s1) + 1 :
             /\ (CharAt(s1, n) = 0 \/ CharAt(s1, n) # CharAt(s2, n))
             /\ \A m \in 1..n - 1 : CharAt(s1, m) # 0 /\ CharAt(s1, m) = CharAt(s2, m)
  IN CharAt(s1, k) - CharAt(s2, k)

CompareVocabTie(a, b) ==
  LET c == b.count - a.count
  IN IF c # 0 THEN (IF c > 0 THEN 1 ELSE -1) ELSE scmp(a.word, b.word)

\* CompareVocab without its comparison of the counts.
CompareVocab_flat(a, b) == 0

CompareVocab(a, b) ==
  LET c == b.count - a.count
  IN IF c # 0 THEN (IF c > 0 THEN 1 ELSE -1) ELSE 0

\* unsigned int arithmetic on the halves [hi, lo] of a 32-bit word.
U32(hi, lo) == [hi |-> hi % 65536, lo |-> lo % 65536]
U32Shl5(h) == U32(h.hi * 32 + (h.lo * 32) \div 65536, h.lo * 32)
U32Shr2(h) == U32(h.hi \div 4, h.lo \div 4 + (h.hi % 4) * 16384)
U32Add(a, b) == U32(a.hi + b.hi + (a.lo + b.lo) \div 65536, a.lo + b.lo)
\* The conversion of an int in the range of char to unsigned int.
U32OfChar(c) == IF c < 0 THEN U32(65535, 65536 + c) ELSE U32(0, c)
\* Exclusive or, bit by bit on 4 bits and by the table of it on 16 bits.
RECURSIVE XorBits(_, _, _)
XorBits(a, b, n) ==
  IF n = 0 THEN 0
  ELSE ((a + b) % 2) + 2 * XorBits(a \div 2, b \div 2, n - 1)
Xor4 == [a \in 0..15 |-> [b \in 0..15 |-> XorBits(a, b, 4)]]
Xor16(a, b) ==
  Xor4[a % 16][b % 16]
  + 16 * Xor4[(a \div 16) % 16][(b \div 16) % 16]
  + 256 * Xor4[(a \div 256) % 16][(b \div 256) % 16]
  + 4096 * Xor4[a \div 4096][b \div 4096]
U32Xor(a, b) == U32(Xor16(a.hi, b.hi), Xor16(a.lo, b.lo))

\* bitwisehash: h = seed; for each char c, h ^= (h << 5) + c + (h >> 2);
\* the result is (h & 0x7fffffff) % tsize.
RECURSIVE bitwisehash_loop(_, _)
bitwisehash_loop(word, h) ==
  IF word = <<>> THEN h
  ELSE bitwisehash_loop(Tail(word),
         U32Xor(h, U32Add(U32Add(U32Shl5(h), U32OfChar(CharVal(Head(word)))),
                          U32Shr2(h))))

bitwisehash(word, tsize, seed) ==
  LET h == bitwisehash_loop(word, U32(seed \div 65536, seed))
  IN ((h.hi % 32768) * 65536 + h.lo) % tsize

\* ht[hval] of the table inithashtable filled with NULL.
Bucket(ht, hval) == IF hval \in DOMAIN ht THEN ht[hval] ELSE NULL

\* The for loop of hashinsert: the pair (hprv, htmp) it stops at.
RECURSIVE hashinsert_walk(_, _, _, _)
hashinsert_walk(hp, w, hprv, htmp) ==
  IF htmp # NULL /\ scmp(hp[htmp].word, w) # 0
  THEN hashinsert_walk(hp, w, htmp, hp[htmp].next)
  ELSE [hprv |-> hprv, htmp |-> htmp]

\* hashinsert whose move to the front leaves out htmp->next = ht[hval].
hashinsert_lost(T, w) ==
  LET hval == bitwisehash(w, TSIZE, SEED)
      at == hashinsert_walk(T.hp, w, NULL, Bucket(T.ht, hval))
      hprv == at.hprv
      htmp == at.htmp
  IN IF htmp = NULL
     THEN LET n == Len(T.hp) + 1
              hp1 == Append(T.hp, [word |-> w, count |-> 1, next |-> NULL])
          IN IF hprv = NULL
             THEN [ht |-> (hval :> n) @@ T.ht, hp |-> hp1]
             ELSE [ht |-> T.ht, hp |-> [hp1 EXCEPT ![hprv].next = n]]
     ELSE LET hp1 == [T.hp EXCEPT ![htmp].count = @ + 1]
          IN IF hprv # NULL
             THEN LET hp2 == [hp1 EXCEPT ![hprv].next = hp1[htmp].next]
                  IN [ht |-> [T.ht EXCEPT ![hval] = htmp], hp |-> hp2]
             ELSE [ht |-> T.ht, hp |-> hp1]

\* hashinsert on the table and heap T = [ht, hp].
hashinsert(T, w) ==
  LET hval == bitwisehash(w, TSIZE, SEED)
      at == hashinsert_walk(T.hp, w, NULL, Bucket(T.ht, hval))
      hprv == at.hprv
      htmp == at.htmp
  IN IF htmp = NULL
     THEN LET n == Len(T.hp) + 1
              hp1 == Append(T.hp, [word |-> w, count |-> 1, next |-> NULL])
          IN IF hprv = NULL
             THEN [ht |-> (hval :> n) @@ T.ht, hp |-> hp1]
             ELSE [ht |-> T.ht, hp |-> [hp1 EXCEPT ![hprv].next = n]]
     ELSE LET hp1 == [T.hp EXCEPT ![htmp].count = @ + 1]
          IN IF hprv # NULL
             THEN LET hp2 == [hp1 EXCEPT ![hprv].next = hp1[htmp].next]
                      hp3 == [hp2 EXCEPT ![htmp].next = T.ht[hval]]
                  IN [ht |-> [T.ht EXCEPT ![hval] = htmp], hp |-> hp3]
             ELSE [ht |-> T.ht, hp |-> hp1]

\* fscanf(fid, "%1000s", str): white space is skipped, then up to
\* MAX_STRING_LENGTH bytes that are not white space are stored; EOF when the
\* input ends before any byte is stored.
fscanf(f) ==
  LET n == Len(f.data)
      rest == {q \in f.pos..n : ~isspace(f.data[q])}
  IN IF rest = {} THEN [ret |-> EOFc, str |-> <<>>, f |-> [f EXCEPT !.pos = n + 1]]
     ELSE LET q == CHOOSE x \in rest : \A y \in rest : x <= y
              e == CHOOSE x \in q..n :
                     /\ \/ x = n
                        \/ isspace(f.data[x + 1])
                        \/ x - q + 1 = MAX_STRING_LENGTH
                     /\ x - q + 1 <= MAX_STRING_LENGTH
                     /\ \A k \in q..x : ~isspace(f.data[k])
          IN [ret |-> 1, str |-> SubSeq(f.data, q, e), f |-> [f EXCEPT !.pos = e + 1]]

\* A comparison with "<unk>" that never matches.
is_unk_never(str) == FALSE

\* strcmp(str, "<unk>") == 0.
is_unk(str) == str = Unk

\* One pass of the while loop of get_counts: a token is read, "<unk>" ends
\* the program with an error, any other token is inserted; EOF ends the loop.
GetCountsToken ==
  /\ vpc = "count"
  /\ LET r == fscanf(stdin)
     IN /\ stdin' = r.f
        /\ IF r.ret = EOFc
           THEN vpc' = "migrate" /\ UNCHANGED <<vocab_hash, heap>>
           ELSE IF is_unk(r.str)
           THEN vpc' = "error" /\ UNCHANGED <<vocab_hash, heap>>
           ELSE LET T == hashinsert([ht |-> vocab_hash, hp |-> heap], r.str)
                IN vocab_hash' = T.ht /\ heap' = T.hp /\ vpc' = "count"
  /\ UNCHANGED <<char_signed, vocab, max_vocab, min_count, vout>>
  /\ UNCHANGED <<varsC, varsS, varsT, varsE>>

\* The chain from htmp on, as the while loop of the migration walks it.
RECURSIVE migrate_chain(_)
migrate_chain(htmp) ==
  IF htmp = NULL THEN <<>>
  ELSE <<[word |-> heap[htmp].word, count |-> heap[htmp].count]>>
         \o migrate_chain(heap[htmp].next)

\* The for loop of the migration over the buckets from i on.
RECURSIVE migrate(_)
migrate(B) ==
  IF B = {} THEN <<>>
  ELSE LET i == CHOOSE x \in B : \A y \in B : x <= y
       IN migrate_chain(vocab_hash[i]) \o migrate(B \ {i})

GetCountsMigrate ==
  /\ vpc = "migrate"
  /\ vocab' = migrate(DOMAIN vocab_hash)
  /\ vpc' = "sort"
  /\ UNCHANGED <<stdin, char_signed, vocab_hash, heap, max_vocab, min_count, vout>>
  /\ UNCHANGED <<varsC, varsS, varsT, varsE>>

\* The arrangements of v that qsort may leave under CompareVocabTie (tie) or
\* CompareVocab: qsort is not stable, elements that compare equal end in any
\* order.
QsortResults(v, tie) ==
  LET n == Len(v)
      cmp(a, b) == IF tie THEN CompareVocabTie(a, b) ELSE CompareVocab(a, b)
      perms == {p \in [1..n -> 1..n] : \A a, b \in 1..n : a # b => p[a] # p[b]}
  IN {[k \in 1..n |-> v[p[k]]] :
        p \in {q \in perms : \A k \in 1..n - 1 : cmp(v[q[k]], v[q[k + 1]]) <= 0}}

\* The two qsort calls of get_counts.
GetCountsSort ==
  /\ vpc = "sort"
  /\ LET jj == Len(vocab)
         cut == max_vocab > 0 /\ max_vocab < jj
     IN \E v1 \in (IF cut THEN QsortResults(vocab, FALSE) ELSE {vocab}) :
          LET mv == IF cut THEN max_vocab ELSE jj
          IN /\ max_vocab' = mv
             /\ \E v2 \in QsortResults(SubSeq(v1, 1, mv), TRUE) :
                  vocab' = v2 \o SubSeq(v1, mv + 1, jj)
  /\ vpc' = "print"
  /\ UNCHANGED <<stdin, char_signed, vocab_hash, heap, min_count, vout>>
  /\ UNCHANGED <<varsC, varsS, varsT, varsE>>

\* The output loop: the entries 0..max_vocab-1 in order, up to the first
\* whose count is below min_count.
RECURSIVE print_loop(_, _)
print_loop(i, acc) ==
  IF i > max_vocab THEN acc
  ELSE IF vocab[i].count < min_count THEN acc
  ELSE print_loop(i + 1, Append(acc, vocab[i]))

GetCountsPrint ==
  /\ vpc = "print"
  /\ vout' = print_loop(1, <<>>)
  /\ vpc' = "done"
  /\ UNCHANGED <<stdin, char_signed, vocab_hash, heap, vocab, max_vocab, min_count>>
  /\ UNCHANGED <<varsC, varsS, varsT, varsE>>

\* ================================================================ shuffle
\* The arrays shuffle may leave: for i from n-1 down to 1, element i is
\* exchanged with element rand_long(i + 1), any of 0..i.
RECURSIVE shuffle_loop(_, _)
shuffle_loop(a, i) ==
  IF i <= 0 THEN {a}
  ELSE UNION {shuffle_loop([a EXCEPT ![jr] = a[i], ![i] = a[jr]], i - 1) : jr \in 0..i}

shuffle(a, n) == shuffle_loop(a, n - 1)

\* shuffle(array, i-2): the call of shuffle_by_chunks on a chunk of i records.
chunk_shuffle(a, i) == shuffle(a, i - 2)

\* shuffle(array, i-1): the call of shuffle_merge on a buffer of i records.
merge_shuffle(a, i) == shuffle(a, i - 1)

\* write_chunk of shuffle: the first n elements of the array, in order.
s_write_chunk(a, n) == [k \in 1..n |-> a[k - 1]]

\* One pass of the while loop of shuffle_by_chunks: a full array is shuffled
\* and written to the current temporary file and the next file is opened, a
\* failure of which ends the program with the message and return 1; then a
\* record is read, and the loop ends at the end of the input.
ShuffleByChunksRead ==
  /\ spc = "chunks"
  /\ LET full == s_i >= array_size
     IN \E a1 \in (IF full THEN chunk_shuffle(array, s_i) ELSE {array}) :
          LET i1 == IF full THEN 0 ELSE s_i
              fc1 == IF full THEN s_fidcounter + 1 ELSE s_fidcounter
              temp1 == IF full
                       THEN fopen_w([temp EXCEPT ![s_fidcounter] = s_write_chunk(a1, s_i)],
                                    fc1)
                       ELSE temp
          IN /\ s_fidcounter' = fc1
             /\ temp' = temp1
             /\ IF full /\ fopen_null("w", fc1)
                THEN /\ array' = a1
                     /\ fin' = fin
                     /\ s_i' = s_i
                     /\ spc' = "fail"
                ELSE IF fin.pos < Len(fin.data)
                THEN /\ array' = [a1 EXCEPT ![i1] = fin.data[fin.pos + 1]]
                     /\ fin' = [fin EXCEPT !.pos = @ + 1]
                     /\ s_i' = i1 + 1
                     /\ spc' = "chunks"
                ELSE /\ array' = a1
                     /\ fin' = [fin EXCEPT !.eof = TRUE]
                     /\ s_i' = i1
                     /\ spc' = "last"
  /\ UNCHANGED <<array_size, s_fid, sout>>
  /\ UNCHANGED <<varsC, varsV, varsT, varsE>>

\* The array malloc returns: no element of it is read before it is written.
Fresh(n) == [k \in 0..n - 1 |-> [word1 |-> 0, word2 |-> 0, val |-> 0]]

\* The end of shuffle_by_chunks: the last chunk is shuffled and written, and
\* shuffle_merge(fidcounter + 1) opens the temporary files; one it cannot
\* open ends the program with the message and return 1.
ShuffleByChunksEnd ==
  /\ spc = "last"
  /\ \E a1 \in chunk_shuffle(array, s_i) :
       temp' = [temp EXCEPT ![s_fidcounter] = s_write_chunk(a1, s_i)]
  /\ IF \E k \in 0..s_fidcounter : fopen_null("rb", k)
     THEN /\ spc' = "fail"
          /\ UNCHANGED <<array, s_fid, s_i>>
     ELSE /\ array' = Fresh(array_size)
          /\ s_fid' = [k \in 0..s_fidcounter |-> [pos |-> 0, eof |-> FALSE]]
          /\ s_i' = 0
          /\ spc' = "merge"
  /\ UNCHANGED <<fin, array_size, s_fidcounter, sout>>
  /\ UNCHANGED <<varsC, varsV, varsT, varsE>>

\* The inner for loop of shuffle_merge on file jf: up to k more records are
\* read into array[i], the loop breaks when fread sets end-of-file.
RECURSIVE merge_read(_, _, _)
merge_read(st, jf, k) ==
  IF k = 0 THEN st
  ELSE IF st.fid[jf].pos < Len(temp[jf])
  THEN merge_read([st EXCEPT !.array[st.i] = temp[jf][st.fid[jf].pos + 1],
                             !.fid[jf].pos = @ + 1,
                             !.i = @ + 1], jf, k - 1)
  ELSE [st EXCEPT !.fid[jf].eof = TRUE]

\* The for loop over the files jf..num-1: files at end-of-file are passed.
RECURSIVE merge_round(_, _, _)
merge_round(st, jf, num) ==
  IF jf >= num THEN st
  ELSE IF st.fid[jf].eof THEN merge_round(st, jf + 1, num)
  ELSE merge_round(merge_read(st, jf, array_size \div num), jf + 1, num)

\* One pass of the while loop of shuffle_merge: a round of reads; with no
\* record read the files are closed and removed, otherwise the records are
\* shuffled and written to standard output.
ShuffleMergeRound ==
  /\ spc = "merge"
  /\ LET num == s_fidcounter + 1
         st == merge_round([array |-> array, i |-> 0, fid |-> s_fid], 0, num)
     IN /\ s_fid' = st.fid
        /\ s_i' = st.i
        /\ IF st.i = 0
           THEN /\ spc' = "done"
                /\ temp' = <<>>
                /\ array' = st.array
                /\ sout' = sout
           ELSE /\ spc' = "merge"
                /\ temp' = temp
                /\ \E a1 \in merge_shuffle(st.array, st.i) :
                     /\ array' = a1
                     /\ sout' = sout \o s_write_chunk(a1, st.i)
  /\ UNCHANGED <<fin, array_size, s_fidcounter>>
  /\ UNCHANGED <<varsC, varsV, varsT, varsE>>

\* ======================================== one stream read by both programs
\* The read of vocab_count's while loop: the token fscanf stores is the one
\* handed to hashinsert; EOF ends the loop, and cooccur starts on the stream.
VocabCountScan ==
  /\ tpc = "scan"
  /\ LET r == fscanf(tstream)
     IN /\ tstream' = r.f
        /\ IF r.ret = EOFc
           THEN tpc' = "word" /\ vtoks' = vtoks
           ELSE tpc' = "scan" /\ vtoks' = Append(vtoks, r.str)
  /\ UNCHANGED <<gw, ctoks>>
  /\ UNCHANGED <<varsC, varsV, varsS, varsE>>

\* One pass of the while loop of get_word, called by get_cooccurrence.
GetWordStep ==
  /\ tpc = "word"
  /\ gw.ret = -1
  /\ ~gw.f.eof
  /\ gw' = get_word_iter(gw)
  /\ UNCHANGED <<tpc, tstream, vtoks, ctoks>>
  /\ UNCHANGED <<varsC, varsV, varsS, varsE>>

\* get_word returns to get_cooccurrence: at end-of-file the loop of
\* get_cooccurrence breaks, a line break is passed, and any other word is
\* the token handed to hashsearch.
GetWordReturn ==
  /\ tpc = "word"
  /\ gw.ret # -1 \/ gw.f.eof
  /\ LET flag == IF gw.ret = -1 THEN 0 ELSE gw.ret
     IN IF gw.f.eof
        THEN tpc' = "done" /\ UNCHANGED <<gw, ctoks>>
        ELSE /\ tpc' = "word"
             /\ gw' = get_word_start(gw.f)
             /\ ctoks' = IF flag = 1 THEN ctoks ELSE Append(ctoks, get_word_str(gw))
  /\ UNCHANGED <<tstream, vtoks>>
  /\ UNCHANGED <<varsC, varsV, varsS, varsE>>

\* ------------------------------------------------ programs that do not run
\* Each specification runs one program; the variables of the others rest.
IdleC ==
  /\ pc = "idle" /\ fid = [data |-> <<>>, pos |-> 1, eof |-> FALSE]
  /\ vocab_size = 0 /\ window_size = 0 /\ symmetric = 0 /\ max_product = 0
  /\ overflow_length = 0 /\ lookup = <<>> /\ bigram_table = <<>> /\ history = <<>>
  /\ cr = <<>> /\ ind = 0 /\ j = 0 /\ fidcounter = 0 /\ disk = <<>> /\ pq = <<>>
  /\ size = 0 /\ old = [word1 |-> 0, word2 |-> 0, val |-> 0, id |-> 0]
  /\ rpos = <<>> /\ feofs = <<>> /\ out = <<>> /\ run = 0 /\ out1 = <<>>

IdleV ==
  /\ vpc = "idle" /\ stdin = [data |-> <<>>, pos |-> 1] /\ char_signed = FALSE
  /\ vocab_hash = <<>> /\ heap = <<>> /\ vocab = <<>> /\ max_vocab = 0
  /\ min_count = 0 /\ vout = <<>>

IdleS ==
  /\ spc = "idle" /\ fin = [data |-> <<>>, pos |-> 1, eof |-> FALSE]
  /\ array_size = 0 /\ array = <<>> /\ s_i = 0 /\ s_fidcounter = 0
  /\ temp = <<>> /\ s_fid = <<>> /\ sout = <<>>

IdleT ==
  /\ tpc = "idle" /\ tstream = [data |-> <<>>, pos |-> 1]
  /\ gw = [i |-> 0, buf |-> <<>>, f |-> [data |-> <<>>, pos |-> 1, eof |-> FALSE],
           ret |-> -1]
  /\ vtoks = <<>> /\ ctoks = <<>>

\* ----------------------------------------------------------------- inputs
\* The corpus of a sequence of items, each the word "a", the word "b" or a
\* line break: words on a line are separated by one space.
RECURSIVE Render(_)
Render(ts) ==
  IF ts = <<>> THEN <<>>
  ELSE LET n == Len(ts)
           front == SubSeq(ts, 1, n - 1)
       IN IF n > 1 /\ ts[n] # NL /\ ts[n - 1] # NL
          THEN Render(front) \o <<SP, ts[n]>>
          ELSE Render(front) \o <<ts[n]>>

Items == {97, 98, NL}
\* Every such corpus of at most MaxItems items, ending with or without a
\* line break, and three corpora with tabs, carriage returns and runs of spaces.
Corpora ==
  {Render(ts) \o e : ts \in UNION {[1..n -> Items] : n \in 0..MaxItems},
                     e \in {<<>>, <<NL>>}}
  \cup { <<97, TAB, 97, CR, NL>>, <<SP, 97, SP, SP, 98, SP>>, <<97, CR, 97, NL>> }
WindowSizes == {1, 2}
VocabSizes == {1, 2}
MaxProducts == {1, 3, 100}
OverflowLengths(W) == {W + 1, W + 20}

\* Scenario A: "a b a c\nb a", ranks a=1 b=2 c=3, W=2, symmetric.
ScenarioA == [data |-> <<97, 32, 98, 32, 97, 32, 99, 10, 98, 32, 97>>,
              V |-> 3, W |-> 2, sym |-> 1]
\* Scenario D: "a x a", vocabulary {a}, W=5.
ScenarioD == [data : {<<97, 32, 120, 32, 97>>}, V : {1}, W : {5}, sym : {0, 1}]

\* A line of four words "a", vocabulary {a}, W=3.
ScenarioW == [data : {<<97, 32, 97, 32, 97, 32, 97, 10>>}, V : {1}, W : {3}, sym : {0, 1}]

Inputs == [data : Corpora, V : VocabSizes, W : WindowSizes, sym : {0, 1}]
            \cup {ScenarioA} \cup ScenarioD \cup ScenarioW

\* get_cooccurrence up to its while loop, on input inp with max_product M and
\* overflow_length OL.
StartState(inp, M, OL) ==
  [pc |-> "stream",
   fid |-> [data |-> inp.data, pos |-> 1, eof |-> FALSE],
   vocab_size |-> inp.V,
   window_size |-> inp.W,
   symmetric |-> inp.sym,
   max_product |-> M,
   overflow_length |-> OL,
   lookup |-> BuildLookup(inp.V, M, inp.V),
   bigram_table |-> [i \in 0..BuildLookup(inp.V, M, inp.V)[inp.V] - 1 |-> 0],
   history |-> [i \in 0..inp.W - 1 |-> 0],
   cr |-> <<>>, ind |-> 0, j |-> 0, fidcounter |-> 1,
   disk |-> fopen_w(<<>>, 1),
   pq |-> <<>>, size |-> 0,
   old |-> [word1 |-> 0, word2 |-> 0, val |-> 0, id |-> 0],
   rpos |-> <<>>, feofs |-> <<>>, out |-> <<>>]

Init ==
  /\ fopen_fails = NoFail
  /\ \E inp \in Inputs : \E M \in MaxProducts : \E OL \in OverflowLengths(inp.W) :
       LET s == StartState(inp, M, OL)
       IN /\ pc = s.pc /\ fid = s.fid /\ vocab_size = s.vocab_size
          /\ window_size = s.window_size /\ symmetric = s.symmetric
          /\ max_product = s.max_product /\ overflow_length = s.overflow_length
          /\ lookup = s.lookup /\ bigram_table = s.bigram_table
          /\ history = s.history /\ cr = s.cr /\ ind = s.ind /\ j = s.j
          /\ fidcounter = s.fidcounter /\ disk = s.disk /\ pq = s.pq
          /\ size = s.size /\ old = s.old /\ rpos = s.rpos /\ feofs = s.feofs
          /\ out = s.out
  /\ run = 1
  /\ out1 = <<>>
  /\ IdleV /\ IdleS /\ IdleT

Next ==
  \/ GetCooccurrenceToken
  \/ GetCooccurrenceFlush
  \/ MergeFilesOpen
  \/ MergeFilesLoop
  \/ MergeFilesEnd

vars == <<varsC, varsV, varsS, varsT, varsE>>

\* cooccur, run once on every input.
Spec == Init /\ [][Next]_vars

\* A max_product so large that every pair of ranks of the model is dense.
DenseOnly == CHOOSE m \in MaxProducts : \A k \in MaxProducts : k <= m

\* cooccur is run a second time on the same corpus, vocabulary, window,
\* symmetric setting and overflow_length, with the dense-only max_product.
Rerun ==
  /\ UNCHANGED <<varsV, varsS, varsT, varsE>>
  /\ pc = "done"
  /\ run = 1
  /\ run' = 2
  /\ out1' = out
  /\ LET s == StartState([data |-> fid.data, V |-> vocab_size, W |-> window_size,
                          sym |-> symmetric], DenseOnly, overflow_length)
     IN /\ pc' = s.pc /\ fid' = s.fid /\ vocab_size' = s.vocab_size
        /\ window_size' = s.window_size /\ symmetric' = s.symmetric
        /\ max_product' = s.max_product /\ overflow_length' = s.overflow_length
        /\ lookup' = s.lookup /\ bigram_table' = s.bigram_table
        /\ history' = s.history /\ cr' = s.cr /\ ind' = s.ind /\ j' = s.j
        /\ fidcounter' = s.fidcounter /\ disk' = s.disk /\ pq' = s.pq
        /\ size' = s.size /\ old' = s.old /\ rpos' = s.rpos /\ feofs' = s.feofs
        /\ out' = s.out

NextEq ==
  \/ GetCooccurrenceToken
  \/ GetCooccurrenceFlush
  \/ MergeFilesOpen
  \/ MergeFilesLoop
  \/ MergeFilesEnd
  \/ Rerun

\* cooccur, run on every input and then again with the dense-only max_product.
SpecEq == Init /\ [][NextEq]_vars

\* ------------------------------------------------------ vocab_count runs
\* The words of the corpora of vocab_count: "0N", "1o" and "34" hash to one
\* bucket, the word of the bytes C3 A9 has bytes above 127, "<unk>" is refused.
Words == {<<48, 78>>, <<49, 111>>, <<51, 52>>, <<195, 169>>, Unk}

\* The words of ws, each ended by sep.
RECURSIVE Join(_, _)
Join(ws, sep) == IF ws = <<>> THEN <<>> ELSE Head(ws) \o sep \o Join(Tail(ws), sep)

VCorpora ==
  {Join(ws, <<SP>>) \o e :
     ws \in UNION {[1..n -> Words] : n \in 0..MaxTokens}, e \in {<<>>}}
  \cup {<<SP, NL>> \o Join(<<<<48, 78>>, <<51, 52>>, <<48, 78>>>>, <<TAB, CR, NL>>),
        <<51, 52, 11, 51, 52, 12, 49, 111>>}

MaxVocabs == {0, 1, 2, 3}
MinCounts == {1, 2}

InitV ==
  /\ fopen_fails = NoFail
  /\ vpc = "count"
  /\ \E d \in VCorpora : stdin = [data |-> d, pos |-> 1]
  /\ char_signed \in BOOLEAN
  /\ vocab_hash = <<>>
  /\ heap = <<>>
  /\ vocab = <<>>
  /\ max_vocab \in MaxVocabs
  /\ min_count \in MinCounts
  /\ vout = <<>>
  /\ IdleC /\ IdleS /\ IdleT

NextV ==
  \/ GetCountsToken
  \/ GetCountsMigrate
  \/ GetCountsSort
  \/ GetCountsPrint

\* vocab_count, run once on every corpus and setting of the model.
SpecV == InitV /\ [][NextV]_vars

\* ----------------------------------------------------------- shuffle runs
Records == {[word1 |-> 1, word2 |-> 1, val |-> Unit],
            [word1 |-> 1, word2 |-> 2, val |-> Unit \div 2]}
ArraySizes == {1, 2, 3}

InitS ==
  /\ fopen_fails = NoFail
  /\ spc = "chunks"
  /\ \E d \in UNION {[1..n -> Records] : n \in 0..MaxRecords} :
       fin = [data |-> d, pos |-> 0, eof |-> FALSE]
  /\ array_size \in ArraySizes
  /\ array = Fresh(array_size)
  /\ s_i = 0
  /\ s_fidcounter = 0
  /\ temp = (0 :> <<>>)
  /\ s_fid = <<>>
  /\ sout = <<>>
  /\ IdleC /\ IdleV /\ IdleT

NextS ==
  \/ ShuffleByChunksRead
  \/ ShuffleByChunksEnd
  \/ ShuffleMergeRound

\* shuffle, run once on every input and array size of the model.
SpecS == InitS /\ [][NextS]_vars

\* ------------------------------------------------- tokenization runs
\* A run of n bytes that are not white space.
Run(n) == [k \in 1..n |-> 97 + (k % 7)]

\* The streams: one long token near the maximum token length, ended by a
\* newline, alone or after a short token.
TStreams ==
  {pre \o Run(n) \o <<NL>> :
     pre \in {<<>>, <<97, 98, SP>>},
     n \in (MAX_STRING_LENGTH - 2)..(MAX_STRING_LENGTH + MaxExcess)}

InitT ==
  /\ fopen_fails = NoFail
  /\ tpc = "scan"
  /\ \E d \in TStreams :
       /\ tstream = [data |-> d, pos |-> 1]
       /\ gw = get_word_start([data |-> d, pos |-> 1, eof |-> FALSE])
  /\ vtoks = <<>>
  /\ ctoks = <<>>
  /\ IdleC /\ IdleV /\ IdleS

NextT ==
  \/ VocabCountScan
  \/ GetWordStep
  \/ GetWordReturn

\* vocab_count, then cooccur, read the tokens of one stream.
SpecTok == InitT /\ [][NextT]_vars

\* ---------------------------------------------- runs with a failing fopen
\* The corpora of these runs: lines of the words "a" and "b".
CorporaF ==
  {Render(ts) \o <<NL>> : ts \in UNION {[1..n -> {97, 98}] : n \in 1..MaxItems}}
InputsF == [data : CorporaF, V : {2}, W : WindowSizes, sym : {0, 1}]
\* One fopen of a run file fails, or none: cooccur opens the overflow files
\* 0001, 0002, ... and the dense file 0000 for writing and all of them for
\* reading; shuffle opens its temporary files 0000, 0001, ... likewise.
Failures == {NoFail} \cup [mode : {"w", "rb"}, i : 0..3]

\* cooccur starts with the first overflow file opened, or not.
InitFC ==
  /\ fopen_fails \in Failures
  /\ \E inp \in InputsF : \E M \in MaxProducts : \E OL \in OverflowLengths(inp.W) :
       LET s == StartState(inp, M, OL)
       IN /\ pc = s.pc /\ fid = s.fid /\ vocab_size = s.vocab_size
          /\ window_size = s.window_size /\ symmetric = s.symmetric
          /\ max_product = s.max_product /\ overflow_length = s.overflow_length
          /\ lookup = s.lookup /\ bigram_table = s.bigram_table
          /\ history = s.history /\ cr = s.cr /\ ind = s.ind /\ j = s.j
          /\ fidcounter = s.fidcounter /\ disk = s.disk /\ pq = s.pq
          /\ size = s.size /\ old = s.old /\ rpos = s.rpos /\ feofs = s.feofs
          /\ out = s.out
  /\ run = 1
  /\ out1 = <<>>
  /\ IdleV /\ IdleS /\ IdleT

\* shuffle_by_chunks up to its while loop: the first temporary file is
\* opened, and a failure ends the program with the message and return 1.
InitFS ==
  /\ fopen_fails \in Failures
  /\ spc = IF fopen_null("w", 0) THEN "fail" ELSE "chunks"
  /\ \E d \in UNION {[1..n -> Records] : n \in 0..MaxRecords} :
       fin = [data |-> d, pos |-> 0, eof |-> FALSE]
  /\ array_size \in ArraySizes
  /\ array = Fresh(array_size)
  /\ s_i = 0
  /\ s_fidcounter = 0
  /\ temp = fopen_w(<<>>, 0)
  /\ s_fid = <<>>
  /\ sout = <<>>
  /\ IdleC /\ IdleV /\ IdleT

InitF == InitFC \/ InitFS

NextF ==
  \/ GetCooccurrenceToken
  \/ GetCooccurrenceFlush
  \/ MergeFilesOpen
  \/ MergeFilesLoop
  \/ MergeFilesEnd
  \/ ShuffleByChunksRead
  \/ ShuffleByChunksEnd
  \/ ShuffleMergeRound

\* cooccur or shuffle, run once with at most one fopen of a run file failing.
SpecF == InitF /\ [][NextF]_vars

\* ================================================== claims about cooccur
KeyLess(a, b) == a.word1 < b.word1 \/ (a.word1 = b.word1 /\ a.word2 < b.word2)

\* C1: the records cooccur writes to standard output are strictly increasing
\* in (w1, w2), so no key is written twice, for every input of the model.
C1_OutputStrictlyIncreasing ==
  pc = "done" => \A i \in 1..Len(out) - 1 : KeyLess(out[i], out[i + 1])

\* C4: the output of cooccur for any max_product and overflow_length equals
\* the output of the dense-only run on the same input.
C4_SameAsDenseOnly ==
  (run = 2 /\ pc = "done") => out = out1

\* The value sum of a sequence of records.
RECURSIVE SumVal(_)
SumVal(rs) == IF rs = <<>> THEN 0 ELSE Head(rs).val + SumVal(Tail(rs))

RECURSIVE SumWeights(_)
SumWeights(D) ==
  IF D = {} THEN 0
  ELSE LET d == CHOOSE x \in D : TRUE IN Weight(d) + SumWeights(D \ {d})

\* The weight the corpus holds by its definition: carriage returns dropped,
\* lines ended by the newline, tokens the maximal runs of bytes other than
\* space and tab; every in-vocabulary token pairs with the up to W earlier
\* in-vocabulary tokens of its line, at weight 1/d.
ExpectedWeight ==
  LET text == SelectSeq(fid.data, LAMBDA c : c # CR)
      delim(i) == text[i] \in {SP, TAB, NL}
      starts == {i \in 1..Len(text) : ~delim(i) /\ (i = 1 \/ delim(i - 1))}
      last(i) == CHOOSE e \in i..Len(text) :
                   /\ (e = Len(text) \/ delim(e + 1))
                   /\ \A k \in i..e : ~delim(k)
      token(i) == SubSeq(text, i, last(i))
      known == {i \in starts : hashsearch(token(i)) # 0}
      sameline(a, c) == \A k \in a..c : text[k] # NL
      before(i) == Cardinality({a \in known : a < i /\ sameline(a, i)})
      least(a, c) == IF a < c THEN a ELSE c
      RECURSIVE total(_)
      total(S) ==
        IF S = {} THEN 0
        ELSE LET i == CHOOSE x \in S : TRUE
             IN SumWeights(1..least(window_size, before(i))) + total(S \ {i})
  IN total(known)

\* C2: the values of the records cooccur outputs add up to the weight the
\* corpus holds, and to twice that weight in symmetric mode.
C2_WeightConservation ==
  pc = "done" =>
    SumVal(out) = ExpectedWeight * (IF symmetric > 0 THEN 2 ELSE 1)

\* C3: on Scenario A cooccur outputs exactly (1,1,1.0), (1,2,3.0), (1,3,1.0),
\* (2,1,3.0), (2,3,0.5), (3,1,1.0), (3,2,0.5), in this order.
C3_ScenarioA ==
  (/\ pc = "done"
   /\ fid.data = ScenarioA.data
   /\ vocab_size = ScenarioA.V
   /\ window_size = ScenarioA.W
   /\ symmetric = ScenarioA.sym)
  => out = << [word1 |-> 1, word2 |-> 1, val |-> Unit],
              [word1 |-> 1, word2 |-> 2, val |-> 3 * Unit],
              [word1 |-> 1, word2 |-> 3, val |-> Unit],
              [word1 |-> 2, word2 |-> 1, val |-> 3 * Unit],
              [word1 |-> 2, word2 |-> 3, val |-> Unit \div 2],
              [word1 |-> 3, word2 |-> 1, val |-> Unit],
              [word1 |-> 3, word2 |-> 2, val |-> Unit \div 2] >>

\* C9: the out-of-vocabulary token "x" of Scenario D is invisible to the
\* window, so the two "a" are at distance 1 and cooccur outputs the pair
\* (1,1) at weight 1.0 in asymmetric mode and 2.0 in symmetric mode.
C9_OOVSkip ==
  (/\ pc = "done"
   /\ [data |-> fid.data, V |-> vocab_size, W |-> window_size,
       sym |-> symmetric] \in ScenarioD)
  => SumVal(SelectSeq(out, LAMBDA r : r.word1 = 1 /\ r.word2 = 1))
       = Weight(1) * (IF symmetric > 0 THEN 2 ELSE 1)

\* ============================================== claims about vocab_count
\* The tokens of vocab_count's input by their definition: the maximal runs
\* of bytes that are not white space, named by the place they start at.
TokenStarts ==
  {i \in 1..Len(stdin.data) :
     ~isspace(stdin.data[i]) /\ (i = 1 \/ isspace(stdin.data[i - 1]))}
TokenAt(i) ==
  LET e == CHOOSE x \in i..Len(stdin.data) :
             /\ (x = Len(stdin.data) \/ isspace(stdin.data[x + 1]))
             /\ \A k \in i..x : ~isspace(stdin.data[k])
  IN SubSeq(stdin.data, i, e)
\* The tokens read so far that were inserted, and how often each was.
Inserted == {TokenAt(i) : i \in {s \in TokenStarts : s < stdin.pos}} \ {Unk}
TokenCount(w) ==
  Cardinality({i \in TokenStarts : i < stdin.pos /\ TokenAt(i) = w})

\* Lexicographic order on byte sequences.
ByteLess(a, b) ==
  \E k \in 1..Len(b) :
    /\ \A m \in 1..k - 1 : m <= Len(a) /\ a[m] = b[m]
    /\ (k > Len(a) \/ a[k] < b[k])

\* C6: any two lines i < k of vocab_count's output have count(i) > count(k),
\* or equal counts and word(i) < word(k) in lexicographic byte order.
C6_VocabularyMonotonic ==
  vpc = "done" =>
    \A i, k \in 1..Len(vout) :
      i < k => \/ vout[i].count > vout[k].count
               \/ /\ vout[i].count = vout[k].count
                  /\ ByteLess(vout[i].word, vout[k].word)

\* The node k links after the head of bucket b, NULL past the end.
RECURSIVE ChainNode(_, _)
ChainNode(h, k) ==
  IF k = 0 \/ h = NULL THEN h ELSE ChainNode(heap[h].next, k - 1)

\* C7: after any sequence of hashinsert calls the table holds exactly one
\* node per distinct token, reachable from the head of the token's bucket,
\* with the number of insertions as its count; every chain ends (no cycle)
\* and no node is on two places of the chains.
C7_HashTable ==
  LET n == Len(heap)
      place == {<<b, k>> \in (DOMAIN vocab_hash) \X (0..n - 1) :
                  ChainNode(vocab_hash[b], k) # NULL}
      at(p) == ChainNode(vocab_hash[p[1]], p[2])
  IN /\ \A b \in DOMAIN vocab_hash : ChainNode(vocab_hash[b], n) = NULL
     /\ \A p, q \in place : p # q => at(p) # at(q)
     /\ {at(p) : p \in place} = 1..n
     /\ \A p \in place : bitwisehash(heap[at(p)].word, TSIZE, SEED) = p[1]
     /\ {heap[m].word : m \in 1..n} = Inserted
     /\ \A m, o \in 1..n : m # o => heap[m].word # heap[o].word
     /\ \A m \in 1..n : heap[m].count = TokenCount(heap[m].word)

\* A hit on the last node of a chain of three has moved it to the front.
C7_Witness ==
  \E b \in DOMAIN vocab_hash :
    LET h == vocab_hash[b]
    IN /\ heap[h].count >= 2
       /\ heap[h].next # NULL
       /\ heap[h].next < h
       /\ heap[heap[h].next].next # NULL
       /\ heap[heap[h].next].next < h

\* The words vocab_count retains: the first max_vocab entries of vocab.
Retained == {vocab[a].word : a \in 1..max_vocab}

\* C8: when max_vocab cuts the vocabulary, exactly max_vocab words are
\* retained and none has a smaller count than a word that was cut; the
\* output is the retained words whose count is at least min_count, each
\* once with its count, so it has at most max_vocab lines.
C8_Truncation ==
  vpc = "done" =>
    /\ max_vocab <= Cardinality(Inserted)
    /\ Retained \subseteq Inserted
    /\ Cardinality(Retained) = max_vocab
    /\ \A w \in Retained : \A u \in Inserted \ Retained :
         TokenCount(w) >= TokenCount(u)
    /\ {vout[k].word : k \in 1..Len(vout)}
         = {w \in Retained : TokenCount(w) >= min_count}
    /\ \A k \in 1..Len(vout) : vout[k].count = TokenCount(vout[k].word)
    /\ \A i, k \in 1..Len(vout) : i # k => vout[i].word # vout[k].word
    /\ Len(vout) <= max_vocab

\* max_vocab has cut a word that ties with a retained one, and min_count
\* has cut a retained word.
C8_Witness ==
  /\ vpc = "done"
  /\ max_vocab < Cardinality(Inserted)
  /\ 0 < Len(vout) /\ Len(vout) < max_vocab
  /\ \E w \in Retained : \E u \in Inserted \ Retained : TokenCount(w) = TokenCount(u)

\* ================================================== claims about shuffle
\* How often the record r is in the sequence s.
Occurrences(s, r) == Cardinality({k \in 1..Len(s) : s[k] = r})

\* C5: shuffle writes exactly as many records as it read, and every record
\* is as often in the output as in the input.
C5_ShufflePreservation ==
  spc = "done" =>
    /\ Len(sout) = Len(fin.data)
    /\ \A r \in Records : Occurrences(sout, r) = Occurrences(fin.data, r)

\* ============================================ claims about tokenization
\* The tokens of the stream by their definition: the maximal runs of bytes
\* other than space, tab and newline, each cut to its first
\* MAX_STRING_LENGTH bytes.
Delim(k) == tstream.data[k] \in {SP, TAB, NL}
RunStarts == {i \in 1..Len(tstream.data) : ~Delim(i) /\ (i = 1 \/ Delim(i - 1))}
RunEnd(i) ==
  CHOOSE x \in i..Len(tstream.data) :
    /\ (x = Len(tstream.data) \/ Delim(x + 1))
    /\ \A k \in i..x : ~Delim(k)
CutToken(i) ==
  LET e == RunEnd(i)
  IN SubSeq(tstream.data, i,
            IF e - i + 1 > MAX_STRING_LENGTH THEN i + MAX_STRING_LENGTH - 1 ELSE e)
ExpectedTokens ==
  [k \in 1..Cardinality(RunStarts) |->
     CutToken(CHOOSE s \in RunStarts : Cardinality({t \in RunStarts : t <= s}) = k)]

\* The stream holds a run of more than MAX_STRING_LENGTH bytes.
LongRun == \E i \in RunStarts : RunEnd(i) - i + 1 > MAX_STRING_LENGTH

\* C10: vocab_count and cooccur both read a run of more than 1000 bytes as
\* one token, its first 1000 bytes, and the excess forms no further token:
\* once a program has read the stream, its tokens are the cut tokens.
C10_TokenTruncation ==
  LongRun =>
    /\ (tpc \in {"word", "done"} => vtoks = ExpectedTokens)
    /\ (tpc = "done" => ctoks = ExpectedTokens)

\* The places where a token "<unk>" of vocab_count's input starts.
UnkStarts == {i \in TokenStarts : TokenAt(i) = Unk}

\* C11: with a token "<unk>" in its input vocab_count never gets past the
\* reading loop and writes no line; once it has read the first "<unk>" it
\* has ended with the error status, whatever tokens came before.
C11_UnkRejected ==
  UnkStarts # {} =>
    /\ vpc \in {"count", "error"}
    /\ vout = <<>>
    /\ (\E i \in UnkStarts : stdin.pos > i) => vpc = "error"

\* vocab_count has ended with the error status after it inserted two
\* different words.
C11_Witness ==
  /\ vpc = "error"
  /\ Len(heap) >= 2
  /\ vout = <<>>

\* =============================================== claims about run files
\* The overflow and dense files cooccur has created so far.
CreatedC ==
  {k \in 1..fidcounter : ~fopen_null("w", k)}
    \cup (IF pc \in {"merge", "fail"} /\ ~fopen_null("w", 0) THEN {0} ELSE {})
\* The temporary files shuffle has created so far.
CreatedS == {k \in 0..s_fidcounter : ~fopen_null("w", k)}

\* C12: when cooccur or shuffle has ended with status 0 none of its run files
\* is left; when it has ended with another status every run file it created
\* is still there; and a run file disappears only in the step that ends the
\* program with status 0.
C12_RunFileLifecycle ==
  /\ [](pc = "done" => DOMAIN disk = {})
  /\ [](spc = "done" => DOMAIN temp = {})
  /\ [](pc \in {"fail", "crash"} => CreatedC \subseteq DOMAIN disk)
  /\ [](spc = "fail" => CreatedS \subseteq DOMAIN temp)
  /\ [][(DOMAIN disk) \ (DOMAIN disk') # {} => pc' = "done"]_vars
  /\ [][(DOMAIN temp) \ (DOMAIN temp') # {} => spc' = "done"]_vars

\* merge_files has returned 1 on an overflow file it could not open for
\* reading, with the dense file and two overflow files on disk.
C12_Witness ==
  /\ pc = "fail"
  /\ fopen_fails.mode = "rb"
  /\ Cardinality(DOMAIN disk) >= 3

\* A fopen of a run file of cooccur has returned NULL.
OpenFailed ==
  \/ fopen_fails.mode = "w" /\ fopen_fails.i \in 1..fidcounter
  \/ fopen_null("w", 0) /\ pc \in {"merge", "loop", "done", "fail"}
  \/ fopen_fails.mode = "rb" /\ fopen_fails.i \in 0..fidcounter
       /\ pc \in {"loop", "done", "fail"}

\* C13: once a run file could not be opened, for writing or for reading,
\* cooccur has stopped with the message and a nonzero status, and has written
\* no record to standard output.
C13_OpenFailureFatal ==
  (pc # "idle" /\ OpenFailed) => (pc = "fail" /\ out = <<>>)

\* ===================================== claims about the streaming pass
\* C14: every write cr[ind] has ind <= overflow_length, so the number of
\* records put into the overflow buffer since the last flush never exceeds
\* overflow_length + 1, the size of the allocation.
C14_OverflowBound ==
  pc \in {"stream", "flush", "ub"} => ind <= overflow_length + 1

\* ============================================ claims about the merge
\* The value sum of the records of a set of run files.
RECURSIVE SumFiles(_)
SumFiles(files) ==
  IF DOMAIN files = {} THEN 0
  ELSE LET k == CHOOSE x \in DOMAIN files : TRUE
       IN SumVal(files[k]) + SumFiles([x \in (DOMAIN files) \ {k} |-> files[x]])

\* The key of record r occurs in one of the run files.
InRuns(files, r) ==
  \E k \in DOMAIN files : \E n \in 1..Len(files[k]) :
    files[k][n].word1 = r.word1 /\ files[k][n].word2 = r.word2

\* C15: when merge_files ends, every record of the output has a key of some
\* run file and the output carries the weight of the run files, no more: an
\* empty run file adds no key and no weight, and with all run files empty
\* nothing is written.
C15_EmptyRunsNeutral ==
  [][(pc = "loop" /\ pc' = "done") =>
       /\ \A n \in 1..Len(out') : InRuns(disk, out'[n])
       /\ SumVal(out') = SumFiles(disk)]_vars

\* ================================== claims about the dense table
\* The overflow run files: all run files but the dense run 0000.
OverflowRuns == [k \in (DOMAIN disk) \ {0} |-> disk[k]]

\* C16: when the run files are complete no key of the dense run 0000 occurs
\* in an overflow run, in symmetric and in asymmetric mode.
C16_DenseSparsePartition ==
  (pc \in {"merge", "loop"} /\ 0 \in DOMAIN disk) =>
    \A n \in 1..Len(disk[0]) : ~InRuns(OverflowRuns, disk[0][n])

\* C17: every record in the overflow buffer and in the overflow runs has
\* w1 * w2 >= max_product, and every record of the dense run 0000 has
\* w1 * w2 < max_product.
C17_DensePredicate ==
  pc \in {"stream", "flush", "merge", "loop"} =>
    /\ \A n \in 1..Len(cr) : cr[n].word1 * cr[n].word2 >= max_product
    /\ \A k \in DOMAIN OverflowRuns : \A n \in 1..Len(disk[k]) :
         disk[k][n].word1 * disk[k][n].word2 >= max_product
    /\ 0 \in DOMAIN disk =>
         \A n \in 1..Len(disk[0]) : disk[0][n].word1 * disk[0][n].word2 < max_product

\* The lookup table reserves vocab_size cells for every w1.
FullTable == \A a \in 1..vocab_size : lookup[a] - lookup[a - 1] = vocab_size

\* C18: with the full table reserved no record is ever put into the overflow
\* buffer and every overflow run is empty.
C18_FullTableNoOverflow ==
  (pc \in {"stream", "flush", "merge", "loop"} /\ FullTable) =>
    /\ cr = <<>>
    /\ \A k \in DOMAIN OverflowRuns : disk[k] = <<>>

\* The pairs of ranks the streaming pass may use the dense table for: the
\* pairs that pass the test of the store, and their mirrors in symmetric mode.
DensePairs ==
  LET direct == {p \in (1..vocab_size) \X (1..vocab_size) : p[1] < max_product \div p[2]}
  IN direct \cup (IF symmetric > 0 THEN {<<p[2], p[1]>> : p \in direct} ELSE {})

\* The context positions of the token at position j of its line.
ContextOf(jj) == {k \in 0..jj - 1 : k >= (IF jj > window_size THEN jj - window_size ELSE 0)}

\* The weight the token w2 at position jj adds to the key (x, y) of the dense
\* table, given the context words in history.
RECURSIVE DenseWeight(_, _, _, _, _)
DenseWeight(K, jj, w2, x, y) ==
  IF K = {} THEN 0
  ELSE LET k == CHOOSE c \in K : TRUE
           w1 == history[k % window_size]
           direct == IF w1 = x /\ w2 = y THEN Weight(jj - k) ELSE 0
           mirror == IF symmetric > 0 /\ w1 = y /\ w2 = x THEN Weight(jj - k) ELSE 0
       IN (IF w1 < max_product \div w2 THEN direct + mirror ELSE 0)
            + DenseWeight(K \ {k}, jj, w2, x, y)

\* C19: the index of every pair the pass may use the dense table for lies in
\* the allocation of lookup[vocab_size] cells and belongs to no other pair;
\* the pass leaves defined behaviour only by a write past the overflow
\* buffer, never by one past the dense table; a token adds to the cell of each pair the weight of that pair only; and
\* every record (x, y, r) of the dense run 0000 holds the content of the cell
\* of (x, y), every nonzero cell having its record.
C19_DenseIndexing ==
  /\ [](pc \in {"stream", "flush", "merge"} =>
         /\ DOMAIN bigram_table = 0..lookup[vocab_size] - 1
         /\ \A p \in DensePairs : dense_index(p[1], p[2]) \in DOMAIN bigram_table
         /\ \A p, q \in DensePairs :
              dense_index(p[1], p[2]) = dense_index(q[1], q[2]) => p = q)
  /\ [](pc = "ub" => ind = overflow_length + 2)
  /\ [][(pc = "stream" /\ pc' = "stream" /\ j' = j + 1) =>
          \A p \in DensePairs :
            bigram_table'[dense_index(p[1], p[2])] - bigram_table[dense_index(p[1], p[2])]
              = DenseWeight(ContextOf(j), j, history'[j % window_size], p[1], p[2])]_vars
  /\ [](pc = "merge" /\ 0 \in DOMAIN disk =>
         /\ \A n \in 1..Len(disk[0]) :
              /\ <<disk[0][n].word1, disk[0][n].word2>> \in DensePairs
              /\ disk[0][n].val = bigram_table[dense_index(disk[0][n].word1, disk[0][n].word2)]
         /\ \A p \in DensePairs :
              bigram_table[dense_index(p[1], p[2])] # 0 =>
                \E n \in 1..Len(disk[0]) : <<disk[0][n].word1, disk[0][n].word2>> = p)

\* The dense run 0000 has been written with three records, in symmetric mode
\* with pairs left for the overflow buffer.
C19_Witness ==
  /\ pc = "merge"
  /\ 0 \in DOMAIN disk
  /\ Len(disk[0]) >= 3
  /\ symmetric > 0
  /\ max_product = 3

\* ============================================ claims about the run files
\* The records of rs are strictly increasing in (word1, word2).
Increasing(rs) == \A n \in 1..Len(rs) - 1 : KeyLess(rs[n], rs[n + 1])

\* The weight the records of rs hold for the key (x, y).
KeyWeight(rs, x, y) == SumVal(SelectSeq(rs, LAMBDA r : r.word1 = x /\ r.word2 = y))

\* C20: when the merge starts every run file is strictly increasing in
\* (w1, w2); an overflow run changes only in one step, which writes to the
\* empty current file, closes it, and leaves in it an increasing chunk with
\* the weight the overflow buffer holds for every key.
C20_RunFileInvariant ==
  /\ [](pc = "merge" => \A k \in DOMAIN disk : Increasing(disk[k]))
  /\ [][\A k \in (DOMAIN OverflowRuns) \cap (DOMAIN disk') :
          disk'[k] # disk[k] =>
            /\ pc \in {"stream", "flush"}
            /\ k = fidcounter
            /\ disk[k] = <<>>
            /\ fidcounter' = k + 1 \/ pc' = "merge"
            /\ Increasing(disk'[k])
            /\ \A x, y \in 1..vocab_size :
                 KeyWeight(disk'[k], x, y) = KeyWeight(SubSeq(cr, 1, ind), x, y)
            /\ \A n \in 1..Len(disk'[k]) :
                 disk'[k][n].word1 \in 1..vocab_size /\ disk'[k][n].word2 \in 1..vocab_size]_vars

\* The merge starts with three overflow runs, one of them holding two records
\* of which one was combined from several of the buffer.
C20_Witness ==
  /\ pc = "merge"
  /\ fidcounter >= 3
  /\ \E k \in DOMAIN OverflowRuns :
       /\ Len(disk[k]) >= 2
       /\ \E n \in 1..Len(disk[k]) : disk[k][n].val > Unit

\* ======================================= claims about the end of input
\* The sum of the cells of the dense table.
RECURSIVE SumCells(_)
SumCells(t) ==
  IF DOMAIN t = {} THEN 0
  ELSE LET i == CHOOSE x \in DOMAIN t : TRUE
       IN t[i] + SumCells([x \in (DOMAIN t) \ {i} |-> t[x]])

\* The weight the streaming pass has stored: in the dense table, in the
\* overflow buffer and in the overflow runs written so far.
StoredWeight == SumCells(bigram_table) + SumVal(cr) + SumFiles(disk)

\* C21: when the streaming pass has reached the end of the input, every
\* in-vocabulary token of the corpus, the final one included, has made its
\* contributions: the stored weight is the weight the corpus holds, and
\* twice that in symmetric mode.
C21_RankCoverage ==
  pc = "flush" =>
    StoredWeight = ExpectedWeight * (IF symmetric > 0 THEN 2 ELSE 1)

\* ======================================== claims about shuffle's chunks
\* The orderings of n records: the permutations of the positions 0..n-1.
Perms(n) == {f \in [0..n - 1 -> 0..n - 1] : \A a, b \in 0..n - 1 : f[a] = f[b] => a = b}

\* The array that holds at every position the position itself.
Positions == [k \in 0..array_size - 1 |-> k]

\* The orders of the first n positions in the arrays of S.
Orders(S, n) == {[k \in 0..n - 1 |-> o[k]] : o \in S}

\* The number of records the next round of shuffle_merge reads.
RoundLength == merge_round([array |-> array, i |-> 0, fid |-> s_fid], 0, s_fidcounter + 1).i

\* C22: whenever shuffle is about to write a chunk of n records, a temporary
\* run in phase 1 or an output buffer in phase 2, its call of shuffle can
\* leave the records in every one of the n! orders.
C22_FullLengthShuffle ==
  /\ ((spc = "chunks" /\ s_i >= array_size) \/ spc = "last") =>
       Orders(chunk_shuffle(Positions, s_i), s_i) = Perms(s_i)
  /\ spc = "merge" =>
       Orders(merge_shuffle(Positions, RoundLength), RoundLength) = Perms(RoundLength)

\* =========================================== claims about symmetric mode
\* C23: in symmetric mode the output of cooccur is a symmetric matrix: with
\* every record (w1, w2, v) it holds the record (w2, w1, v).
C23_SymmetricOutput ==
  (pc = "done" /\ symmetric > 0) =>
    \A n \in 1..Len(out) : \E m \in 1..Len(out) :
      /\ out[m].word1 = out[n].word2
      /\ out[m].word2 = out[n].word1
      /\ out[m].val = out[n].val

====
